---- MODULE Spec2Model ----
(***************************************************************************)
(* The virtual CPU of src/src/cpu.rs (a subset of CHIP-8): loader writes,  *)
(* register seeding and the fetch / advance / decode / dispatch run loop.  *)
(* A Rust panic (panic!, todo!, a failed bounds check) ends the run: the   *)
(* model records it in `status` and `fault`.  Every state with             *)
(* status = "Running" stands at the head of the loop of CPU::run, that is, *)
(* at the start of a fetch.                                                *)
(***************************************************************************)
EXTENDS Integers, Sequences, FiniteSets, TLC

VARIABLES
    reg,      \* CPU.reg: [u8; 16]
    mem,      \* CPU.mem: [u8; 4096], as the sequence of its bytes
    pc,       \* CPU.pc: usize
    stack,    \* CPU.stack: [u16; 16]
    sp,       \* CPU.sp: usize
    opcode,   \* the local `opcode` of CPU::run (the last opcode fetched)
    status,   \* "Loading" | "Running" | "Halted" | "Faulted"
    fault,    \* which panic ended the run ("none" while there is none)
    frames    \* history: for each CALL not yet returned from, the address it
              \* was fetched at and the stack pointer it found

vars == <<reg, mem, pc, stack, sp, opcode, status, fault, frames>>

----------------------------------------------------------------------------
(* Sizes fixed by the source.                                              *)

NumRegs == 16
MemSize == 4096
StackLen == 16
RES_SYS_MEM == 256
CarryReg == 15

RegIdx == 0 .. (NumRegs - 1)
StackIdx == 0 .. (StackLen - 1)

(* The byte of memory m at address a (addresses start at 0).               *)
ByteAt(m, a) == m[a + 1]

(* `as u8` and `as u16` casts.                                             *)
AsU8(n) == n % 256
AsU16(n) == n % 65536

----------------------------------------------------------------------------
(* Inputs of the loader and of register seeding.                           *)

(* Opcodes as the loader receives them, two bytes each, high byte first.   *)
OpBytes(ops) ==
    [i \in 1 .. (2 * Len(ops)) |->
        IF i % 2 = 1 THEN ops[(i + 1) \div 2] \div 256
                     ELSE ops[i \div 2] % 256]

Zeros(n) == [i \in 1 .. n |-> 0]

(* Register indices and values the loader seeds.                           *)
MaxSeedReg == 1
SeedRegs == (0 .. MaxSeedReg) \cup {CarryReg}
SeedVals == {20, 250}

(* Byte sequences handed to write_system_mem.                              *)
SysInputs ==
    { OpBytes(<<32788>>),                 \* 0x8014  ADD r0 += r1
      OpBytes(<<36612>>),                 \* 0x8F04  ADD rF += r0
      OpBytes(<<33012>>),                 \* 0x80F4  ADD r0 += rF
      OpBytes(<<32772>>),                 \* 0x8004  ADD r0 += r0
      OpBytes(<<8192>>),                  \* 0x2000  CALL 0x000 (recursion)
      OpBytes(<<238>>),                   \* 0x00EE  RETURN
      OpBytes(<<241>>),                   \* 0x00F1  not in the table
      OpBytes(<<4608>>),                  \* 0x1200  not in the table
      OpBytes(<<8448, 8448, 0>>),         \* CALL 0x100, CALL 0x100, HALT
      OpBytes(<<12287>>),                 \* 0x2FFF  CALL 0xFFF
      OpBytes(<<12284>>),                 \* 0x2FFC  CALL 0xFFC
      OpBytes(<<8449>>),                  \* 0x2101  CALL 0x101
      Zeros(RES_SYS_MEM),
      Zeros(RES_SYS_MEM + 1) }

(* Byte sequences handed to write_prog_mem.                                *)
ProgInputs ==
    { OpBytes(<<32788, 32788, 238>>),     \* ADD, ADD, RETURN
      OpBytes(<<32788, 8452, 238>>),      \* ADD, CALL 0x104, RETURN
      OpBytes(<<0, 238>>),                \* HALT, RETURN
      Zeros(MemSize - RES_SYS_MEM - 4) \o OpBytes(<<32788, 32788>>),
      Zeros(MemSize - RES_SYS_MEM + 1) }

----------------------------------------------------------------------------
(* CPU::new                                                                *)

(* A constructor that leaves the stack pointer at 1.                       *)
Init_StackPointerOne ==
    /\ reg = [i \in 0 .. 15 |-> 0]
    /\ mem = [i \in 1 .. 4096 |-> 0]
    /\ pc = 0
    /\ stack = [i \in 0 .. 15 |-> 0]
    /\ sp = 1
    /\ opcode = 0
    /\ status = "Loading"
    /\ fault = "none"
    /\ frames = <<>>

Init ==
    /\ reg = [i \in RegIdx |-> 0]
    /\ mem = Zeros(MemSize)
    /\ pc = 0
    /\ stack = [i \in StackIdx |-> 0]
    /\ sp = 0
    /\ opcode = 0
    /\ status = "Loading"
    /\ fault = "none"
    /\ frames = <<>>

----------------------------------------------------------------------------
(* The loader.                                                             *)

(* cpu.reg[idx] = val                                                      *)
WriteReg(idx, val) ==
    /\ status = "Loading"
    /\ reg' = [reg EXCEPT ![idx] = val]
    /\ UNCHANGED <<mem, pc, stack, sp, opcode, status, fault, frames>>

(* self.mem[start..stop].copy_from_slice(&ops)                             *)
SliceOK(stop) == stop <= MemSize

(* The copy placed one byte too far.                                       *)
CopyFromSlice_OneTooFar(m, start, ops) ==
    SubSeq(m, 1, start + 1) \o ops
        \o SubSeq(m, start + Len(ops) + 2, MemSize)

CopyFromSlice(m, start, ops) ==
    SubSeq(m, 1, start) \o ops \o SubSeq(m, start + Len(ops) + 1, MemSize)

(* The length check with >= in place of >.                                 *)
SysTooLong_OffByOne(ops) == Len(ops) >= RES_SYS_MEM

SysTooLong(ops) == Len(ops) > RES_SYS_MEM

write_system_mem(ops) ==
    /\ status = "Loading"
    /\ IF SysTooLong(ops)
       THEN /\ status' = "Faulted"
            /\ fault' = "MemoryWriteOutOfBounds"
            /\ mem' = mem
       ELSE /\ mem' = CopyFromSlice(mem, 0, ops)
            /\ UNCHANGED <<status, fault>>
    /\ UNCHANGED <<reg, pc, stack, sp, opcode, frames>>

write_prog_mem(ops) ==
    /\ status = "Loading"
    /\ IF ~SliceOK(RES_SYS_MEM + Len(ops))
       THEN /\ status' = "Faulted"
            /\ fault' = "IndexOutOfBounds"
            /\ mem' = mem
       ELSE /\ mem' = CopyFromSlice(mem, RES_SYS_MEM, ops)
            /\ UNCHANGED <<status, fault>>
    /\ UNCHANGED <<reg, pc, stack, sp, opcode, frames>>

(* cpu.run() is entered.                                                   *)
StartRun ==
    /\ status = "Loading"
    /\ status' = "Running"
    /\ UNCHANGED <<reg, mem, pc, stack, sp, opcode, fault, frames>>

----------------------------------------------------------------------------
(* Fetch and decode.                                                       *)

(* The bounds checks of self.mem[self.pc] and self.mem[self.pc + 1].       *)
FetchInBounds(p) == p < MemSize /\ p + 1 < MemSize

(* CPU::read_opcode: (op_byte1 << 8) | op_byte2                            *)
read_opcode(m, p) == AsU16(ByteAt(m, p) * 256) + ByteAt(m, p + 1)

(* A decode that hands out the two middle nibbles in the wrong order.      *)
decode_SwappedXY(op) ==
    << (op \div 4096) % 16, (op \div 16) % 16, (op \div 256) % 16, op % 16 >>

(* CPU::decode: the nibbles (c, x, y, d) of an opcode.                     *)
decode(op) ==
    << (op \div 4096) % 16, (op \div 256) % 16, (op \div 16) % 16, op % 16 >>

(* let nnn = opcode & 0x0FFF                                               *)
nnn(op) == op % 4096

(* The match with the subgroup nibble of ADD ignored: (0x8, x, y, _).      *)
Arm_AnyGroup8(op) ==
    LET n == decode(op) IN
    IF n = <<0, 0, 0, 0>> THEN "HALT"
    ELSE IF n = <<0, 0, 14, 14>> THEN "RET"
    ELSE IF n[1] = 2 THEN "CALL"
    ELSE IF n[1] = 8 THEN "ADD"
    ELSE "TODO"

(* The match without its HALT arm.                                         *)
Arm_NoHalt(op) ==
    LET n == decode(op) IN
    IF n = <<0, 0, 14, 14>> THEN "RET"
    ELSE IF n[1] = 2 THEN "CALL"
    ELSE IF n[1] = 8 /\ n[4] = 4 THEN "ADD"
    ELSE "TODO"

(* The arm of the match in CPU::run an opcode takes.                       *)
Arm(op) ==
    LET n == decode(op) IN
    IF n = <<0, 0, 0, 0>> THEN "HALT"
    ELSE IF n = <<0, 0, 14, 14>> THEN "RET"
    ELSE IF n[1] = 2 THEN "CALL"
    ELSE IF n[1] = 8 /\ n[4] = 4 THEN "ADD"
    ELSE "TODO"

(* The opcode the next iteration of the loop fetches.                      *)
Fetched == read_opcode(mem, pc)

(* An iteration starts and its fetch succeeds with an opcode of arm k.     *)
Fetch(k) ==
    /\ status = "Running"
    /\ FetchInBounds(pc)
    /\ Arm(Fetched) = k
    /\ opcode' = Fetched

----------------------------------------------------------------------------
(* The handlers.                                                           *)

(* u8::overflowing_add                                                     *)
overflowing_add(a, b) == << AsU8(a + b), a + b > 255 >>

(* add_xy with the flag set on overflow but never cleared.                 *)
add_xy_FlagNotCleared(r, x, y) ==
    LET res == overflowing_add(r[y], r[x])
        r1 == [r EXCEPT ![x] = res[1]]
    IN  IF res[2] THEN [r1 EXCEPT ![CarryReg] = 1] ELSE r1

(* add_xy with the flag written before the sum instead of after it.        *)
add_xy_FlagFirst(r, x, y) ==
    LET res == overflowing_add(r[y], r[x])
        r1 == [r EXCEPT ![CarryReg] = IF res[2] THEN 1 ELSE 0]
    IN  [r1 EXCEPT ![x] = res[1]]

(* add_xy with the sum stored in both operand registers.                   *)
add_xy_StoresInY(r, x, y) ==
    LET res == overflowing_add(r[y], r[x])
        r1 == [r EXCEPT ![x] = res[1], ![y] = res[1]]
    IN  [r1 EXCEPT ![CarryReg] = IF res[2] THEN 1 ELSE 0]

(* CPU::add_xy, as a function of the register file.                        *)
add_xy(r, x, y) ==
    LET lhs == r[x]
        rhs == r[y]
        res == overflowing_add(rhs, lhs)
        r1 == [r EXCEPT ![x] = res[1]]
    IN  IF res[2] THEN [r1 EXCEPT ![CarryReg] = 1]
                  ELSE [r1 EXCEPT ![CarryReg] = 0]

(* An index into self.stack that is not checked.                           *)
StackInBounds_Unchecked(s) == TRUE

(* The bounds check of an index into self.stack (a usize below the length).*)
StackInBounds(s) == 0 <= s /\ s < StackLen

(* CPU::call: the explicit check, and the value saved for the advanced     *)
(* program counter p (self.pc as u16).                                     *)
CallOverflow(s) == s > StackLen

(* The return address kept in 8 bits.                                      *)
PushValue_AsU8(p) == AsU8(p)

(* The program counter saved as it was before run advanced it.             *)
PushValue_NotAdvanced(p) == AsU16(p - 2)

PushValue(p) == AsU16(p)

(* CPU::ret: the explicit check, and the slot the return address is read   *)
(* from once sp is decremented.                                            *)
(* An underflow check that never fires.                                    *)
RetUnderflow_Never(s) == s < 0

RetUnderflow(s) == s = 0

(* The return address read without decrementing sp first.                  *)
RetSlot_NotDecremented(s) == s

RetSlot(s) == s - 1

----------------------------------------------------------------------------
(* One iteration of the loop of CPU::run, by the arm taken.                *)

(* read_opcode panics: the program counter is not advanced.                *)
FetchPanic ==
    /\ status = "Running"
    /\ ~FetchInBounds(pc)
    /\ status' = "Faulted"
    /\ fault' = "IndexOutOfBounds"
    /\ UNCHANGED <<reg, mem, pc, stack, sp, opcode, frames>>

(* (0, 0, 0, 0) => return                                                  *)
StepHalt ==
    /\ Fetch("HALT")
    /\ pc' = pc + 2
    /\ status' = "Halted"
    /\ UNCHANGED <<reg, mem, stack, sp, fault, frames>>

(* (0, 0, 0xE, 0xE) => self.ret()                                          *)
StepRet ==
    /\ Fetch("RET")
    /\ IF RetUnderflow(sp)
       THEN /\ pc' = pc + 2
            /\ status' = "Faulted"
            /\ fault' = "StackUnderflow"
            /\ UNCHANGED <<sp, frames>>
       ELSE IF ~StackInBounds(RetSlot(sp))
       THEN /\ pc' = pc + 2
            /\ status' = "Faulted"
            /\ fault' = "IndexOutOfBounds"
            /\ UNCHANGED <<sp, frames>>
       ELSE /\ sp' = RetSlot(sp)
            /\ pc' = stack[RetSlot(sp)]
            /\ frames' = SubSeq(frames, 1, Len(frames) - 1)
            /\ UNCHANGED <<status, fault>>
    /\ UNCHANGED <<reg, mem, stack>>

(* A CALL that keeps the return address in memory (at 0xEA0 + 2 * sp) as   *)
(* well as in the call stack.                                              *)
StepCall_StackInMemory ==
    /\ Fetch("CALL")
    /\ StackInBounds(sp)
    /\ stack' = [stack EXCEPT ![sp] = PushValue(pc + 2)]
    /\ mem' = CopyFromSlice(mem, 3744 + 2 * sp, OpBytes(<<PushValue(pc + 2)>>))
    /\ sp' = sp + 1
    /\ pc' = nnn(Fetched)
    /\ frames' = Append(frames, [at |-> pc, sp |-> sp])
    /\ UNCHANGED <<reg, status, fault>>

(* (0x2, _, _, _) => self.call(nnn)                                        *)
StepCall ==
    /\ Fetch("CALL")
    /\ IF CallOverflow(sp)
       THEN /\ pc' = pc + 2
            /\ status' = "Faulted"
            /\ fault' = "StackOverflow"
            /\ UNCHANGED <<stack, sp, frames>>
       ELSE IF ~StackInBounds(sp)
       THEN /\ pc' = pc + 2
            /\ status' = "Faulted"
            /\ fault' = "IndexOutOfBounds"
            /\ UNCHANGED <<stack, sp, frames>>
       ELSE /\ stack' = [stack EXCEPT ![sp] = PushValue(pc + 2)]
            /\ sp' = sp + 1
            /\ pc' = nnn(Fetched)
            /\ frames' = Append(frames, [at |-> pc, sp |-> sp])
            /\ UNCHANGED <<status, fault>>
    /\ UNCHANGED <<reg, mem>>

(* An ADD that skips the next instruction when the sum carries.            *)
StepAdd_SkipOnCarry ==
    /\ Fetch("ADD")
    /\ reg' = add_xy(reg, decode(Fetched)[2], decode(Fetched)[3])
    /\ pc' = pc + 2 + 2 * reg'[CarryReg]
    /\ UNCHANGED <<mem, stack, sp, status, fault, frames>>

(* (0x8, x, y, 0x4) => self.add_xy(x, y)                                   *)
StepAdd ==
    /\ Fetch("ADD")
    /\ pc' = pc + 2
    /\ reg' = add_xy(reg, decode(Fetched)[2], decode(Fetched)[3])
    /\ UNCHANGED <<mem, stack, sp, status, fault, frames>>

(* _ => todo!("implement remaining opcodes!")                              *)
StepTodo ==
    /\ Fetch("TODO")
    /\ pc' = pc + 2
    /\ status' = "Faulted"
    /\ fault' = "UnimplementedOpcode"
    /\ UNCHANGED <<reg, mem, stack, sp, frames>>

----------------------------------------------------------------------------
Load ==
    \/ \E idx \in SeedRegs, val \in SeedVals : WriteReg(idx, val)
    \/ \E ops \in SysInputs : write_system_mem(ops)
    \/ \E ops \in ProgInputs : write_prog_mem(ops)
    \/ StartRun

Step ==
    \/ FetchPanic
    \/ StepHalt
    \/ StepRet
    \/ StepCall
    \/ StepAdd
    \/ StepTodo

Next == Load \/ Step

Spec == Init /\ [][Next]_vars

----------------------------------------------------------------------------
(* Runs of one-instruction images: the loader has written one opcode at    *)
(* address 0 and run() has been entered.                                   *)

OneOp(op) == OpBytes(<<op>>) \o Zeros(MemSize - 2)

Fresh(m, r) ==
    /\ reg = r
    /\ mem = m
    /\ pc = 0
    /\ stack = [i \in StackIdx |-> 0]
    /\ sp = 0
    /\ opcode = 0
    /\ status = "Running"
    /\ fault = "none"
    /\ frames = <<>>

(* Every 16-bit opcode, on zeroed registers.                               *)
InitOps == \E op \in 0 .. 65535 : Fresh(OneOp(op), [i \in RegIdx |-> 0])

SpecOps == InitOps /\ [][Step]_vars

(* Every ADD opcode 0x8xy4, with registers x, y and 0xF seeded.            *)
AddOp(x, y) == 8 * 4096 + x * 256 + y * 16 + 4

SeededRegs(x, a, y, b, f) ==
    [i \in RegIdx |->
        IF i = x THEN a ELSE IF i = y THEN b ELSE IF i = CarryReg THEN f ELSE 0]

InitAdd ==
    \E x \in RegIdx, y \in RegIdx :
        \E a \in SeedVals \cup {0}, b \in SeedVals \cup {0}, f \in SeedVals \cup {1} :
            Fresh(OneOp(AddOp(x, y)), SeededRegs(x, a, y, b, f))

NextAdd == StepAdd \/ StepHalt

SpecAdd == InitAdd /\ [][NextAdd]_vars

----------------------------------------------------------------------------
(* The memory writes of the loader alone, on a CPU whose registers were    *)
(* seeded first as test_call_and_return seeds them (r0 = 5, r1 = 10).      *)

InitLoad ==
    /\ reg = SeededRegs(0, 5, 1, 10, 0)
    /\ mem = Zeros(MemSize)
    /\ pc = 0
    /\ stack = [i \in StackIdx |-> 0]
    /\ sp = 0
    /\ opcode = 0
    /\ status = "Loading"
    /\ fault = "none"
    /\ frames = <<>>

NextLoad ==
    \/ \E ops \in SysInputs : write_system_mem(ops)
    \/ \E ops \in ProgInputs : write_prog_mem(ops)

SpecLoad == InitLoad /\ [][NextLoad]_vars

(* The same loader followed by the run: every memory image the loader can  *)
(* build, run from program counter 0.                                      *)
NextImage == NextLoad \/ StartRun \/ Step

SpecImage == InitLoad /\ [][NextImage]_vars

(* Once run() is entered its loop keeps iterating until it returns or      *)
(* panics: a step of the loop that can be taken is eventually taken.       *)
SpecLive == SpecImage /\ WF_vars(Step)

----------------------------------------------------------------------------
(* The iteration about to run, read off the state at the head of the loop. *)

AtFetch == status = "Running" /\ FetchInBounds(pc)
Nibbles == decode(Fetched)
X == Nibbles[2]
Y == Nibbles[3]

IsHalt == AtFetch /\ Nibbles = <<0, 0, 0, 0>>
IsRet == AtFetch /\ Nibbles = <<0, 0, 14, 14>>
IsCall == AtFetch /\ Nibbles[1] = 2
IsAdd == AtFetch /\ Nibbles[1] = 8 /\ Nibbles[4] = 4
IsOther == AtFetch /\ ~(IsHalt \/ IsRet \/ IsCall \/ IsAdd)

(* The last opcode fetched was an ADD.                                     *)
LastWasAdd == decode(opcode)[1] = 8 /\ decode(opcode)[4] = 4

Sum == reg[X] + reg[Y]
Carry == IF Sum > 255 THEN 1 ELSE 0

----------------------------------------------------------------------------
(* C1, as claimed: for every x and y, ADD leaves registers[x] equal to the *)
(* sum mod 256 and registers[0xF] equal to the carry.                      *)
C1_AddAllRegisters ==
    [][IsAdd => (reg'[X] = Sum % 256 /\ reg'[CarryReg] = Carry)]_vars

(* C1, amended: every ADD rewrites registers[0xF] to the carry (1 if the   *)
(* sum of the old registers[x] and registers[y] exceeds 255, else 0), and  *)
(* for every x other than 0xF it leaves registers[x] equal to that sum     *)
(* mod 256.                                                                *)
C1_AddWrapsAndFlags ==
    [][IsAdd => /\ reg'[CarryReg] = Carry
                /\ (X # CarryReg => reg'[X] = Sum % 256)]_vars

(* 0x8014 has run on r0 = 250, r1 = 20: r0 = 14 and the flag is 1.         *)
C1_Witness ==
    /\ opcode = 32788
    /\ pc = 2
    /\ reg[0] = 14
    /\ reg[1] = 20
    /\ reg[CarryReg] = 1

(* C2: right after an ADD step, whatever x and y, registers[0xF] is 0 or 1.*)
C2_FlagIsBit == LastWasAdd => reg[CarryReg] \in {0, 1}

(* 0x8F04 has run on rF = 250, r0 = 20: the flag write replaced the sum.   *)
C2_Witness ==
    /\ opcode = 36612
    /\ pc = 2
    /\ reg[0] = 20
    /\ reg[CarryReg] = 1

(* C3: a CALL fetched at address a with stack_pointer s < 16 stores a + 2  *)
(* in slot s, leaves the other slots alone, makes stack_pointer s + 1 and  *)
(* program_counter nnn.                                                    *)
C3_CallPushes ==
    [][(IsCall /\ sp < StackLen) =>
          /\ stack'[sp] = pc + 2
          /\ \A i \in StackIdx \ {sp} : stack'[i] = stack[i]
          /\ sp' = sp + 1
          /\ pc' = Fetched % 4096
          /\ status' = "Running"]_vars

(* The CALL 0x104 fetched at 0x102, inside the subroutine called from 0.   *)
C3_Witness ==
    /\ opcode = 8452
    /\ status = "Running"
    /\ pc = 260
    /\ sp = 2
    /\ stack[0] = 2
    /\ stack[1] = 260

(* C4: a RETURN with stack_pointer s > 0 makes stack_pointer s - 1 and     *)
(* loads program_counter from slot s - 1, which holds the value saved by   *)
(* the most recent CALL not yet returned from: execution resumes two bytes *)
(* after that CALL, with the stack_pointer that CALL found.                *)
C4_ReturnResumes ==
    [][(IsRet /\ sp > 0) =>
          /\ sp' = sp - 1
          /\ pc' = stack[sp - 1]
          /\ Len(frames) = sp
          /\ pc' = frames[Len(frames)].at + 2
          /\ sp' = frames[Len(frames)].sp
          /\ status' = "Running"]_vars

(* The RETURN matching the CALL fetched at 0x102 has resumed at 0x104.     *)
C4_Witness ==
    /\ opcode = 238
    /\ status = "Running"
    /\ pc = 260
    /\ sp = 1
    /\ stack[1] = 260
    /\ Len(frames) = 1

(* C5: nested CALLs succeed while stack_pointer < 16, and the CALL run     *)
(* with stack_pointer = 16 faults with StackOverflow, raised by the        *)
(* overflow check, leaving the stack and stack_pointer as they were.       *)
C5_SeventeenthCallOverflows ==
    [][IsCall =>
          IF sp < StackLen
          THEN status' = "Running" /\ sp' = sp + 1
          ELSE /\ status' = "Faulted"
               /\ fault' = "StackOverflow"
               /\ sp' = sp
               /\ stack' = stack]_vars

(* C6: a RETURN with stack_pointer = 0 faults with StackUnderflow: the run *)
(* is Faulted, stack_pointer stays 0 and program_counter keeps the         *)
(* advanced value instead of a value read from the stack.                  *)
C6_ReturnUnderflows ==
    [][(IsRet /\ sp = 0) =>
          /\ status' = "Faulted"
          /\ fault' = "StackUnderflow"
          /\ sp' = 0
          /\ pc' = pc + 2
          /\ stack' = stack]_vars

(* The RETURN at address 0 found the stack empty.                          *)
C6_Witness ==
    /\ status = "Faulted"
    /\ fault = "StackUnderflow"
    /\ opcode = 238
    /\ sp = 0
    /\ pc = 2

(* C7: an opcode outside the four recognised patterns faults with          *)
(* UnimplementedOpcode: the run is Faulted, never continued, and the       *)
(* registers, the call stack and stack_pointer are unchanged.              *)
C7_OtherOpcodeFaults ==
    [][IsOther =>
          /\ status' = "Faulted"
          /\ fault' = "UnimplementedOpcode"
          /\ reg' = reg
          /\ stack' = stack
          /\ sp' = sp]_vars

(* 0x00F1 has been dispatched.                                             *)
C7_Witness ==
    /\ opcode = 241
    /\ status = "Faulted"
    /\ fault = "UnimplementedOpcode"

(* C8: fetching 0x0000 ends the run in that step with no fault and no      *)
(* change to the registers, the call stack or stack_pointer, and nothing   *)
(* is fetched or dispatched once the run is Halted.                        *)
C8_HaltStopsRun ==
    [][/\ IsHalt => /\ status' = "Halted"
                    /\ fault' = "none"
                    /\ reg' = reg
                    /\ stack' = stack
                    /\ sp' = sp
       /\ status = "Halted" => FALSE]_vars

(* The program CALL 0x100, CALL 0x100, HALT has halted with r0 = 20 + 4*20.*)
C8_Witness ==
    /\ status = "Halted"
    /\ fault = "none"
    /\ opcode = 0
    /\ pc = 6
    /\ sp = 0
    /\ reg[0] = 100
    /\ stack[0] = 4

(* C9: 0 <= stack_pointer <= 16 in every reachable state.                  *)
C9_StackPointerInRange == 0 <= sp /\ sp <= StackLen

(* Sixteen nested CALLs have filled the call stack.                        *)
C9_Witness == sp = StackLen /\ status = "Running"

(* C10: at the start of every fetch 0 <= program_counter <= 4094.          *)
C10_FetchInsideMemory == status = "Running" => (0 <= pc /\ pc <= MemSize - 2)

(* C11: at the start of every fetch program_counter is even.               *)
C11_FetchAligned == status = "Running" => pc % 2 = 0

----------------------------------------------------------------------------
(* Runs of call-and-return programs shaped like test_call_and_return's:    *)
(* the system region holds k CALLs to 0x100 and a HALT, the program region *)
(* holds j ADDs (r0 += r1) and then a RETURN or a HALT; r0 starts at 5.    *)

MaxCalls == 3
MaxAdds == 3

Repeat(op, n) == [i \in 1 .. n |-> op]

CallProgram(k, j, last) ==
    CopyFromSlice(
        CopyFromSlice(Zeros(MemSize), 0, OpBytes(Repeat(8448, k) \o <<0>>)),
        RES_SYS_MEM, OpBytes(Repeat(32788, j) \o <<last>>))

InitCalls ==
    \E k \in 0 .. MaxCalls, j \in 0 .. MaxAdds, last \in {238, 0} :
        \E b \in SeedVals \cup {10}, f \in {0, 250} :
            Fresh(CallProgram(k, j, last), SeededRegs(0, 5, 1, b, f))

NextCalls == StepCall \/ StepAdd \/ StepRet \/ StepHalt

SpecCalls == InitCalls /\ [][NextCalls]_vars

(* The CALLs in the system region and the ADDs in the program region.      *)
CallsLoaded ==
    Cardinality({i \in 0 .. MaxCalls : read_opcode(mem, 2 * i) = 8448})
AddsLoaded ==
    Cardinality({i \in 0 .. MaxAdds :
                    read_opcode(mem, RES_SYS_MEM + 2 * i) = 32788})

(* C13: stack_pointer equals the CALLs executed minus the RETURNs executed *)
(* (the CALLs still pending), so a run that halts with every CALL returned *)
(* from halts with stack_pointer 0, and by then a subroutine of j ADDs     *)
(* called k times has added r1 to r0 k * j times.                          *)
C13_StackPointerCountsCalls ==
    /\ sp = Len(frames)
    /\ (status = "Halted" /\ Len(frames) = 0) =>
           /\ sp = 0
           /\ reg[0] = (5 + CallsLoaded * AddsLoaded * reg[1]) % 256

(* CALL 0x100, CALL 0x100, HALT over ADD, ADD, RETURN with r0 = 5 and      *)
(* r1 = 10 has halted with r0 = 45.                                        *)
C13_Witness ==
    /\ status = "Halted"
    /\ pc = 6
    /\ sp = 0
    /\ reg[0] = 45
    /\ reg[1] = 10
    /\ stack[0] = 4

(* The state CPU::new is claimed to build.                                 *)
AllZero ==
    /\ \A i \in 0 .. 15 : reg[i] = 0
    /\ Len(mem) = 4096
    /\ \A a \in 0 .. 4095 : ByteAt(mem, a) = 0
    /\ \A i \in 0 .. 15 : stack[i] = 0
    /\ pc = 0
    /\ sp = 0

(* C14: a freshly constructed CPU has its 16 registers, its 4096 memory    *)
(* bytes and its 16 call-stack slots equal to 0, and program_counter and   *)
(* stack_pointer equal to 0: every behaviour starts in such a state.       *)
C14_FreshIsZero == AllZero /\ [][TRUE]_vars

(* The CPU as constructed, before the loader has touched it.               *)
C14_Witness ==
    /\ status = "Loading"
    /\ AllZero
    /\ DOMAIN reg = 0 .. 15
    /\ DOMAIN stack = 0 .. 15

(* C15: every run, once started, ends: it reaches Halted or Faulted (a     *)
(* fetch outside memory being a fault).                                    *)
C15_RunTerminates ==
    (status = "Running") ~> (status \in {"Halted", "Faulted"})

(* A run has ended by a fetch outside memory: the two ADDs at 0xFFC and    *)
(* 0xFFE, entered by CALL 0xFFC, ran up to program_counter 4096.           *)
C15_Witness ==
    /\ status = "Faulted"
    /\ fault = "IndexOutOfBounds"
    /\ pc = 4096
    /\ sp = 1
    /\ opcode = 32788

(* The bytes of memory m at addresses from .. to - 1.                      *)
Region(m, from, to) == SubSeq(m, from + 1, to)

(* C16: a successful write_system_mem(bytes) puts bytes at addresses       *)
(* 0 .. len - 1 and changes no other byte, so none of the program region;  *)
(* a successful write_prog_mem(bytes) puts bytes at 0x100 .. 0x100 + len   *)
(* - 1 and changes no other byte, so none of the system region; and a step *)
(* of the loader that changes memory changes neither the registers, nor    *)
(* program_counter, nor the call stack, nor stack_pointer.                 *)
C16_LoaderWritesOnlyItsRegion ==
    [][/\ \A ops \in SysInputs :
            (write_system_mem(ops) /\ status' = "Loading") =>
                /\ Len(mem') = 4096
                /\ Region(mem', 0, Len(ops)) = ops
                /\ Region(mem', Len(ops), 4096) = Region(mem, Len(ops), 4096)
                /\ Region(mem', 256, 4096) = Region(mem, 256, 4096)
       /\ \A ops \in ProgInputs :
            (write_prog_mem(ops) /\ status' = "Loading") =>
                /\ Len(mem') = 4096
                /\ Region(mem', 256, 256 + Len(ops)) = ops
                /\ Region(mem', 0, 256) = Region(mem, 0, 256)
                /\ Region(mem', 256 + Len(ops), 4096)
                       = Region(mem, 256 + Len(ops), 4096)
       /\ (status = "Loading" /\ mem' # mem) =>
                /\ reg' = reg
                /\ pc' = pc
                /\ stack' = stack
                /\ sp' = sp]_vars

(* The system region holds CALL 0x100, CALL 0x100, HALT and the program    *)
(* region ADD, ADD, RETURN, written one after the other; r0 and r1 are as  *)
(* seeded.                                                                 *)
C16_Witness ==
    /\ status = "Loading"
    /\ Region(mem, 0, 6) = OpBytes(<<8448, 8448, 0>>)
    /\ Region(mem, 256, 262) = OpBytes(<<32788, 32788, 238>>)
    /\ reg[0] = 5
    /\ reg[1] = 10

(* C17: no step of the run loop changes a byte of memory: from the moment  *)
(* run() is entered, memory stays the image the loader left.               *)
C17_RunLeavesMemory ==
    [][status = "Running" => mem' = mem]_vars

(* CALL 0x100, CALL 0x100, HALT over ADD, ADD, RETURN has run to its HALT  *)
(* (r0 = 5 + 4 * 10) and memory still holds exactly that program.          *)
C17_Witness ==
    /\ status = "Halted"
    /\ pc = 6
    /\ reg[0] = 45
    /\ stack[0] = 4
    /\ mem = CallProgram(2, 2, 238)

(* C18: an ADD step changes no register other than registers[x] and        *)
(* registers[0xF], advances program_counter by 2, leaves the call stack    *)
(* and stack_pointer alone and does not fault.                             *)
C18_AddFrame ==
    [][IsAdd =>
          /\ \A i \in RegIdx \ {X, CarryReg} : reg'[i] = reg[i]
          /\ pc' = pc + 2
          /\ stack' = stack
          /\ sp' = sp
          /\ status' = "Running"
          /\ fault' = "none"]_vars

(* 0x8124 has run on r1 = 250, r2 = 20: r2 is still 20.                    *)
C18_Witness ==
    /\ opcode = 33060
    /\ status = "Running"
    /\ pc = 2
    /\ reg[1] = 14
    /\ reg[2] = 20
    /\ reg[CarryReg] = 1

(* The control state of a run, and the control state one iteration of the  *)
(* loop of CPU::run leads to, computed from memory and the control state   *)
(* alone (no register is read).                                            *)
Control == <<pc, stack, sp, status, fault>>

ControlNext(m, p, st, s) ==
    IF ~(p + 1 < MemSize)
    THEN <<p, st, s, "Faulted", "IndexOutOfBounds">>
    ELSE LET op == ByteAt(m, p) * 256 + ByteAt(m, p + 1) IN
         IF op = 0 THEN <<p + 2, st, s, "Halted", "none">>
         ELSE IF op = 238
         THEN IF s = 0 THEN <<p + 2, st, s, "Faulted", "StackUnderflow">>
                       ELSE <<st[s - 1], st, s - 1, "Running", "none">>
         ELSE IF op \div 4096 = 2
         THEN IF s >= StackLen
              THEN <<p + 2, st, s, "Faulted", "IndexOutOfBounds">>
              ELSE <<op % 4096, [st EXCEPT ![s] = p + 2], s + 1,
                     "Running", "none">>
         ELSE IF op \div 4096 = 8 /\ op % 16 = 4
         THEN <<p + 2, st, s, "Running", "none">>
         ELSE <<p + 2, st, s, "Faulted", "UnimplementedOpcode">>

(* C19: control flow does not depend on the registers: every step of a run *)
(* takes program_counter, the call stack, stack_pointer and the outcome    *)
(* (running, halted, or which fault) to values fixed by memory and their   *)
(* old values alone, so two runs over one memory image that differ only in *)
(* their registers go through the same control states step by step.        *)
C19_ControlIgnoresRegisters ==
    [][status = "Running" => Control' = ControlNext(mem, pc, stack, sp)]_vars

(* Inside the subroutine at 0x100 after an ADD that carried (r0 = 250,     *)
(* r1 = 20): the register contents differ from a run without carry, the    *)
(* control state does not.                                                 *)
C19_Witness ==
    /\ status = "Running"
    /\ opcode = 32788
    /\ pc = 258
    /\ sp = 1
    /\ stack[0] = 2
    /\ reg[0] = 14
    /\ reg[CarryReg] = 1

(* C20: the opcode fetched is memory[pc] * 256 + memory[pc + 1]; decode    *)
(* splits it into four nibbles, each in 0..15, that recombine to the       *)
(* opcode; nnn is its low 12 bits, x * 256 + y * 16 + d, and is where a    *)
(* CALL that finds room on the stack continues.                            *)
C20_DecodeRoundTrip ==
    [][AtFetch =>
          LET o == opcode'
              n == decode(o)
              low == n[2] * 256 + n[3] * 16 + n[4]
          IN  /\ o = ByteAt(mem, pc) * 256 + ByteAt(mem, pc + 1)
              /\ \A i \in 1 .. 4 : n[i] \in 0 .. 15
              /\ n[1] * 4096 + low = o
              /\ nnn(o) = low
              /\ (n[1] = 2 /\ sp < StackLen => pc' = low)]_vars

(* CALL 0xABC at address 0 was fetched as 0x2ABC and taken.                *)
C20_Witness ==
    /\ opcode = 10940
    /\ pc = 2748
    /\ sp = 1
    /\ stack[0] = 2
    /\ status = "Running"

====
